---- MODULE Spec2Model ----
(***************************************************************************)
(* Model of contextor's file selection engine: the exclusion predicate     *)
(* (contextor/utils.py should_exclude and codecontextor/main.py            *)
(* should_exclude), the binary sniff, the signature predicate, the git     *)
(* query, the single-pass walk scan_project_files and the tree renderer    *)
(* generate_tree.                                                          *)
(*                                                                         *)
(* Python strings are sequences of one-character strings, so startswith,   *)
(* endswith, split, lower and the ordering used by sorted() are computed   *)
(* and not assumed.                                                        *)
(***************************************************************************)
EXTENDS Integers, Sequences, FiniteSets, TLC

VARIABLES
    fs,                   \* the filesystem below the scanned directory
    directory,            \* argument of scan_project_files
    spec,                 \* argument: the user PathSpec, or None
    git_only_signatures,  \* argument
    git,                  \* what `git ls-files` would answer
    pc,                   \* position of scan_project_files
    stack,                \* directories os.walk has still to yield
    all_files,            \* list being filled
    signature_candidates, \* list being filled
    git_tracked,          \* set of normalized absolute paths
    result,               \* the dict returned by scan_project_files
    prev_result,          \* the dict returned by the previous scan
    listing,              \* order in which the filesystem lists entries
    calls,                \* I/O and predicate calls made by the current scan
    q,                    \* arguments of a direct call of one function
    qres                  \* outcome of that call

vars == << fs, directory, spec, git_only_signatures, git, pc, stack, all_files,
           signature_candidates, git_tracked, result, prev_result, listing,
           calls, q, qres >>

scanVars == << fs, directory, spec, git_only_signatures, git, pc, stack,
               all_files, signature_candidates, git_tracked, result,
               prev_result, listing, calls >>

-----------------------------------------------------------------------------
(* Python str operations                                                   *)

DEFAULT_EXCLUSIONS ==
    { <<".","g","i","t","/">>,
      <<".","c","o","n","d","a","/">>,
      <<".","v","e","n","v","/">>,
      <<"v","e","n","v","/">>,
      <<"n","o","d","e","_","m","o","d","u","l","e","s","/">>,
      <<"_","_","p","y","c","a","c","h","e","_","_","/">>,
      <<"*",".","p","y","c">>,
      <<".","i","d","e","a","/">>,
      <<".","v","s","c","o","d","e","/">>,
      <<"d","i","s","t","/">>,
      <<"b","u","i","l","d","/">>,
      <<"t","a","r","g","e","t","/">>,
      <<".","D","S","_","S","t","o","r","e">>,
      <<".","p","y","t","e","s","t","_","c","a","c","h","e","/">>,
      <<".","c","o","v","e","r","a","g","e","/">>,
      <<"c","o","v","e","r","a","g","e","/">>,
      <<"t","m","p","/">>,
      <<"t","e","m","p","/">>,
      <<".","n","e","x","t","/">>,
      <<".","n","u","x","t","/">>,
      <<"o","u","t","/">>,
      <<".","s","a","s","s","-","c","a","c","h","e","/">>,
      <<"_","_","t","e","s","t","s","_","_","/","_","_","s","n","a","p","s","h","o","t","s","_","_","/">>,
      <<".","i","p","y","n","b","_","c","h","e","c","k","p","o","i","n","t","s","/">>,
      <<"*",".","l","o","c","k">> }

binary_extensions ==
    { <<".","p","n","g">>,
      <<".","j","p","g">>,
      <<".","j","p","e","g">>,
      <<".","g","i","f">>,
      <<".","b","m","p">>,
      <<".","i","c","o">>,
      <<".","s","v","g">>,
      <<".","p","d","f">>,
      <<".","d","o","c">>,
      <<".","d","o","c","x">>,
      <<".","p","p","t">>,
      <<".","p","p","t","x">>,
      <<".","x","l","s">>,
      <<".","x","l","s","x">>,
      <<".","z","i","p">>,
      <<".","t","a","r">>,
      <<".","g","z">>,
      <<".","r","a","r">>,
      <<".","7","z">>,
      <<".","b","i","n">>,
      <<".","e","x","e">>,
      <<".","d","l","l">>,
      <<".","s","o">>,
      <<".","d","y","l","i","b">>,
      <<".","c","l","a","s","s">>,
      <<".","j","a","r">>,
      <<".","p","y","c">> }

CharCode ==
    "!" :> 33 @@ "*" :> 42 @@ "-" :> 45 @@ "." :> 46 @@ "/" :> 47 @@ "0" :> 48 @@
    "1" :> 49 @@ "2" :> 50 @@ "3" :> 51 @@ "4" :> 52 @@ "5" :> 53 @@ "6" :> 54 @@
    "7" :> 55 @@ "8" :> 56 @@ "9" :> 57 @@ "A" :> 65 @@ "B" :> 66 @@ "C" :> 67 @@
    "D" :> 68 @@ "E" :> 69 @@ "F" :> 70 @@ "G" :> 71 @@ "H" :> 72 @@ "I" :> 73 @@
    "J" :> 74 @@ "K" :> 75 @@ "L" :> 76 @@ "M" :> 77 @@ "N" :> 78 @@ "O" :> 79 @@
    "P" :> 80 @@ "Q" :> 81 @@ "R" :> 82 @@ "S" :> 83 @@ "T" :> 84 @@ "U" :> 85 @@
    "V" :> 86 @@ "W" :> 87 @@ "X" :> 88 @@ "Y" :> 89 @@ "Z" :> 90 @@ "_" :> 95 @@
    "a" :> 97 @@ "b" :> 98 @@ "c" :> 99 @@ "d" :> 100 @@ "e" :> 101 @@ "f" :> 102 @@
    "g" :> 103 @@ "h" :> 104 @@ "i" :> 105 @@ "j" :> 106 @@ "k" :> 107 @@ "l" :> 108 @@
    "m" :> 109 @@ "n" :> 110 @@ "o" :> 111 @@ "p" :> 112 @@ "q" :> 113 @@ "r" :> 114 @@
    "s" :> 115 @@ "t" :> 116 @@ "u" :> 117 @@ "v" :> 118 @@ "w" :> 119 @@ "x" :> 120 @@
    "y" :> 121 @@ "z" :> 122

UpperChars == <<"A","B","C","D","E","F","G","H","I","J","K","L","M","N","O","P","Q","R","S","T","U","V","W","X","Y","Z">>
LowerChars == <<"a","b","c","d","e","f","g","h","i","j","k","l","m","n","o","p","q","r","s","t","u","v","w","x","y","z">>


Slash == "/"
Star == "*"
Bang == "!"
Dot == "."

StartsWith(s, p) == Len(p) <= Len(s) /\ SubSeq(s, 1, Len(p)) = p

EndsWith(s, p) == Len(p) <= Len(s) /\ SubSeq(s, Len(s) - Len(p) + 1, Len(s)) = p

Contains(s, c) == \E i \in 1..Len(s) : s[i] = c

LowerChar(c) ==
    IF \E i \in 1..Len(UpperChars) : UpperChars[i] = c
    THEN LowerChars[CHOOSE i \in 1..Len(UpperChars) : UpperChars[i] = c]
    ELSE c

Lower(s) == [i \in 1..Len(s) |-> LowerChar(s[i])]

\* str.split(c): the pieces between occurrences of c, empty pieces kept.
RECURSIVE SplitFrom(_, _, _, _, _)
SplitFrom(s, c, i, cur, acc) ==
    IF i > Len(s) THEN Append(acc, cur)
    ELSE IF s[i] = c THEN SplitFrom(s, c, i + 1, << >>, Append(acc, cur))
    ELSE SplitFrom(s, c, i + 1, Append(cur, s[i]), acc)

Split(s, c) == SplitFrom(s, c, 1, << >>, << >>)

\* c.join(parts)
RECURSIVE Join(_, _)
Join(parts, c) ==
    IF Len(parts) = 0 THEN << >>
    ELSE IF Len(parts) = 1 THEN parts[1]
    ELSE parts[1] \o << c >> \o Join(Tail(parts), c)

\* a < b for Python str: code point order, a proper prefix is smaller.
RECURSIVE StrLess(_, _)
StrLess(a, b) ==
    IF Len(b) = 0 THEN FALSE
    ELSE IF Len(a) = 0 THEN TRUE
    ELSE IF a[1] = b[1] THEN StrLess(Tail(a), Tail(b))
    ELSE CharCode[a[1]] < CharCode[b[1]]

Range(s) == { s[i] : i \in 1..Len(s) }

-----------------------------------------------------------------------------
(* os.path and pathlib                                                     *)

Cwd == <<"/","w">>

isabs(p) == Len(p) > 0 /\ p[1] = Slash

os_path_join(a, b) ==
    IF isabs(b) THEN b
    ELSE IF Len(a) = 0 \/ a[Len(a)] = Slash THEN a \o b
    ELSE a \o << Slash >> \o b

\* os.path.normpath on the segments: "" and "." dropped, ".." pops.
RECURSIVE NormSegs(_, _, _)
NormSegs(segs, acc, abs) ==
    IF Len(segs) = 0 THEN acc
    ELSE LET h == segs[1] IN
         IF h = << >> \/ h = << Dot >> THEN NormSegs(Tail(segs), acc, abs)
         ELSE IF h = << Dot, Dot >>
         THEN IF Len(acc) > 0 /\ acc[Len(acc)] # << Dot, Dot >>
              THEN NormSegs(Tail(segs), SubSeq(acc, 1, Len(acc) - 1), abs)
              ELSE IF abs THEN NormSegs(Tail(segs), acc, abs)
              ELSE NormSegs(Tail(segs), Append(acc, h), abs)
         ELSE NormSegs(Tail(segs), Append(acc, h), abs)

normpath(p) ==
    LET segs == NormSegs(Split(p, Slash), << >>, isabs(p))
    IN  IF isabs(p) THEN << Slash >> \o Join(segs, Slash)
        ELSE IF Len(segs) = 0 THEN << Dot >>
        ELSE Join(segs, Slash)

abspath(p) == normpath(IF isabs(p) THEN p ELSE os_path_join(Cwd, p))

\* pathlib.PurePosixPath(p).parts: the anchor "/" first when absolute, then
\* the segments with "" and "." dropped (".." is kept).
RECURSIVE DropEmptyAndDot(_)
DropEmptyAndDot(segs) ==
    IF Len(segs) = 0 THEN << >>
    ELSE IF segs[1] = << >> \/ segs[1] = << Dot >> THEN DropEmptyAndDot(Tail(segs))
    ELSE << segs[1] >> \o DropEmptyAndDot(Tail(segs))

Parts(p) ==
    (IF isabs(p) THEN << << Slash >> >> ELSE << >>) \o DropEmptyAndDot(Split(p, Slash))

\* Path.relative_to(base): ok = FALSE stands for the ValueError raised when
\* base is not a leading part of path; rel is str() of the relative path.
relative_to(path, base) ==
    LET pp == Parts(path)
        bp == Parts(base)
    IN  IF Len(bp) <= Len(pp) /\ SubSeq(pp, 1, Len(bp)) = bp
        THEN [ok |-> TRUE,
              rel |-> IF Len(pp) = Len(bp) THEN << Dot >>
                      ELSE Join(SubSeq(pp, Len(bp) + 1, Len(pp)), Slash)]
        ELSE [ok |-> FALSE, rel |-> << >>]


-----------------------------------------------------------------------------
(* The user PathSpec (pathspec 'gitwildmatch'), reached through             *)
(* spec.match_file: a list of patterns, "!" negates, the last pattern that *)
(* matches decides.  A pattern with a "/" before its end is anchored at    *)
(* the base; any other pattern matches a segment at any depth; a trailing  *)
(* "/" restricts the match to directories; a matched directory covers      *)
(* everything below it.                                                    *)

\* One segment against one pattern segment, with at most one "*".
SegMatch(p, s) ==
    IF Contains(p, Star)
    THEN LET pp == Split(p, Star)
         IN  /\ Len(pp) = 2
             /\ Len(s) >= Len(pp[1]) + Len(pp[2])
             /\ StartsWith(s, pp[1])
             /\ EndsWith(s, pp[2])
    ELSE s = p

PatternMatches(pat, rel) ==
    LET dirOnly == EndsWith(pat, << Slash >>)
        core == IF dirOnly THEN SubSeq(pat, 1, Len(pat) - 1) ELSE pat
        relIsDir == EndsWith(rel, << Slash >>)
        rsegs == DropEmptyAndDot(Split(rel, Slash))
        n == Len(rsegs)
        csegs == DropEmptyAndDot(Split(core, Slash))
    IN  IF Contains(core, Slash)
        THEN /\ Len(csegs) <= n
             /\ \A j \in 1..Len(csegs) : SegMatch(csegs[j], rsegs[j])
             /\ (dirOnly => (Len(csegs) < n \/ relIsDir))
        ELSE \E i \in 1..n :
                /\ SegMatch(core, rsegs[i])
                /\ (dirOnly => (i < n \/ relIsDir))

IsNegated(line) == Len(line) > 0 /\ line[1] = Bang

PatternOf(line) == IF IsNegated(line) THEN Tail(line) ELSE line

match_file(patterns, rel) ==
    LET hits == { i \in 1..Len(patterns) : PatternMatches(PatternOf(patterns[i]), rel) }
    IN  /\ hits # {}
        /\ ~IsNegated(patterns[CHOOSE i \in hits : \A j \in hits : j <= i])

\* spec = None is [none |-> TRUE]
NoSpec == [none |-> TRUE, patterns |-> << >>]

PathSpec(patterns) == [none |-> FALSE, patterns |-> patterns]


-----------------------------------------------------------------------------
(* The filesystem: the entries that can exist below the scanned directory. *)
(* key is the sequence of names from the scanned directory to the entry.   *)

READ_CHUNK == 1024

MaxFileSize == 10 * 1024 * 1024

Dir(key, listable) ==
    [key |-> key, dir |-> TRUE, listable |-> listable, readable |-> FALSE,
     statOK |-> TRUE, size |-> 0, firstNull |-> -1]

File(key, readable, statOK, size, firstNull) ==
    [key |-> key, dir |-> FALSE, listable |-> FALSE, readable |-> readable,
     statOK |-> statOK, size |-> size, firstNull |-> firstNull]

Text(key) == File(key, TRUE, TRUE, 120, -1)

n_git == <<".","g","i","t">>
n_src == <<"s","r","c">>
n_build == <<"b","u","i","l","d">>
n_buildtools == <<"b","u","i","l","d","t","o","o","l","s">>
n_docs == <<"d","o","c","s">>
n_data == <<"d","a","t","a">>
n_bin == <<"b","i","n">>
n_locked == <<"l","o","c","k","e","d">>
n_node_modules == <<"n","o","d","e","_","m","o","d","u","l","e","s">>
n_dist == <<"d","i","s","t">>
n_README == <<"R","E","A","D","M","E",".","m","d">>

\* Entries found in every tree, directly in the scanned directory.
RootFiles ==
    { Text(<< n_README >>),
      Text(<< <<"y","a","r","n",".","l","o","c","k">> >>),
      Text(<< <<"p","a","c","k","a","g","e","-","l","o","c","k",".","j","s","o","n">> >>),
      Text(<< <<"x",".","p","y","c">> >>),
      Text(<< <<".","D","S","_","S","t","o","r","e">> >>) }

\* Directories a tree may hold, each with all it contains.
Subtrees ==
    { Dir(<< n_git >>, TRUE),
      Text(<< n_git, <<"c","o","n","f","i","g">> >>),
      Dir(<< n_src >>, TRUE),
      Text(<< n_src, <<"a","p","p",".","p","y">> >>),
      Text(<< n_src, <<"M","A","I","N",".","P","Y">> >>),
      Dir(<< n_src, n_node_modules >>, TRUE),
      Text(<< n_src, n_node_modules, <<"i",".","j","s">> >>),
      Dir(<< n_build >>, TRUE),
      Text(<< n_build, <<"b",".","p","y">> >>),
      Dir(<< n_build, n_dist >>, TRUE),
      Text(<< n_build, n_dist, <<"o","u","t","p","u","t",".","j","s">> >>),
      Dir(<< n_buildtools >>, TRUE),
      Text(<< n_buildtools, <<"f","i","l","e",".","t","x","t">> >>),
      Dir(<< n_docs >>, TRUE),
      Text(<< n_docs, <<"g","u","i","d","e",".","m","d">> >>),
      Text(<< n_docs, <<"A",".","M","D">> >>),
      Text(<< n_docs, <<"i","m","g",".","p","n","g">> >>),
      Dir(<< n_data >>, TRUE),
      File(<< n_data, <<"b","i","g",".","s","q","l">> >>, TRUE, TRUE, MaxFileSize + 1, -1),
      File(<< n_data, <<"e","d","g","e",".","m","d">> >>, TRUE, TRUE, MaxFileSize, -1),
      File(<< n_data, <<"g","o","n","e",".","p","y">> >>, TRUE, FALSE, 120, -1),
      Dir(<< n_bin >>, TRUE),
      File(<< n_bin, <<"n","u","l",".","j","s">> >>, TRUE, TRUE, 2000, READ_CHUNK - 1),
      File(<< n_bin, <<"l","a","t","e",".","t","s">> >>, TRUE, TRUE, 2000, READ_CHUNK),
      File(<< n_bin, <<"s","e","c","r","e","t",".","p","y">> >>, FALSE, TRUE, 120, -1),
      Dir(<< n_locked >>, FALSE),
      Text(<< n_locked, <<"x",".","p","y">> >>) }

Universe == RootFiles \cup Subtrees

AllKeys == { << >> } \cup { n.key : n \in Universe }

TopNames == { n.key[1] : n \in Subtrees }

\* Number of optional top-level directories of a tree.
MaxEntries == 2

\* fs = [root |-> "ok" | "missing" | "unlistable", top |-> names present]
\* An unlistable scanned directory is modelled with nothing known below it
\* but, possibly, .git.
PresentIn(f, key) ==
    /\ f.root # "missing"
    /\ IF key[1] \in TopNames THEN key[1] \in f.top ELSE f.root = "ok"

Nodes(f) == { n \in Universe : PresentIn(f, n.key) }

FileNodes(f) == { n \in Nodes(f) : ~n.dir }

DirNodes(f) == { n \in Nodes(f) : n.dir }

Trees ==
    { [root |-> "ok", top |-> T] : T \in { S \in SUBSET TopNames : Cardinality(S) <= MaxEntries } }
    \cup { [root |-> "missing", top |-> {}] }
    \cup { [root |-> "unlistable", top |-> T] : T \in { {}, { n_git } } }

Directories == { <<"/","p">>, <<"p">> }

UserSpecs ==
    { NoSpec,
      PathSpec(<< <<"d","o","c","s","/">> >>),
      PathSpec(<< <<"*",".","m","d">>, <<"!","R","E","A","D","M","E",".","m","d">> >>),
      PathSpec(<< <<"b","u","i","l","d","/">>, <<"!","b","u","i","l","d","/">> >>) }

ScanSpecs ==
    { NoSpec,
      PathSpec(<< <<"d","o","c","s","/">> >>),
      PathSpec(<< <<"*",".","m","d">>, <<"!","R","E","A","D","M","E",".","m","d">> >>) }

\* What subprocess.run(['git', 'ls-files', '--full-name'], check=True) does
\* in the scanned directory: it raises FileNotFoundError (no git executable)
\* or CalledProcessError (non-zero exit status, as in a directory that is no
\* repository), or it lists the files of the tree but those below the names
\* of `untracked`.
GitErrors == { "FileNotFoundError", "CalledProcessError" }

GitOutcomes(f) ==
    IF << n_git >> \in { n.key : n \in Nodes(f) }
    THEN { [error |-> e, untracked |-> {}] : e \in GitErrors }
         \cup { [error |-> "none", untracked |-> {}],
                [error |-> "none", untracked |-> { n.key[1] : n \in Nodes(f) }] }
         \cup { [error |-> "none", untracked |-> { t }] : t \in f.top \cup { n_README } }
    ELSE { [error |-> "none", untracked |-> {}] }

Orders == { "asc", "desc" }

\* os.path.join(directory, name1, name2, ...)
RECURSIVE JoinAll(_, _)
JoinAll(base, names) ==
    IF Len(names) = 0 THEN base
    ELSE JoinAll(os_path_join(base, names[1]), Tail(names))

\* Every path string a scan can form.
PathTable == [dk \in Directories \X AllKeys |-> JoinAll(dk[1], dk[2])]

ScanPaths == { PathTable[dk] : dk \in Directories \X AllKeys }

-----------------------------------------------------------------------------
(* Direct calls of should_exclude: the arguments tried.                    *)

\* Greatest number of leading "src" segments of a path tried.
MaxNest == 1

DirPatterns == { p \in DEFAULT_EXCLUSIONS : EndsWith(p, << Slash >>) }

DirPatternNames == { SubSeq(p, 1, Len(p) - 1) : p \in DirPatterns }

QNames ==
    DirPatternNames
    \cup { nm \o <<"t","o","o","l","s">> : nm \in DirPatternNames }
    \cup { n_docs, n_README, <<"x",".","p","y","c">>, <<"y","a","r","n",".","l","o","c","k">>, <<"p","a","c","k","a","g","e","-","l","o","c","k",".","j","s","o","n">>,
           <<".","D","S","_","S","t","o","r","e">>, <<"a","p","p",".","p","y">> }

QSuffixes == { << >>, << <<"f","i","l","e",".","t","x","t">> >>, << n_dist, <<"o","u","t","p","u","t",".","j","s">> >> }

RECURSIVE Nest(_)
Nest(k) == IF k = 0 THEN << >> ELSE << n_src >> \o Nest(k - 1)

\* The relative paths tried, as segment lists.
QRels == { Nest(k) \o << nm >> \o suf : k \in 0..MaxNest, nm \in QNames, suf \in QSuffixes }

\* (directory the path lies in, base_path): the base itself, a relative
\* base, another directory, and a relative base for an absolute path.
QPlaces ==
    { << <<"/","p">>, <<"/","p">> >>, << <<"p">>, <<"p">> >>,
      << <<"/","q">>, <<"/","p">> >>, << <<"/","p">>, <<"p">> >> }

\* A path tried is a directory or a file when it ends in one of QNames, and
\* a file otherwise.
QTargets == { t \in QRels \X BOOLEAN : t[2] => t[1][Len(t[1])] \in QNames }

Queries ==
    { [path |-> os_path_join(pl[1], Join(t[1], Slash)), base |-> pl[2],
       is_dir |-> t[2], spec |-> sp] :
         pl \in QPlaces, t \in QTargets, sp \in UserSpecs }

\* Every rel_path_str a scan or a direct call can form.
RelStrs ==
    { Join(k, Slash) : k \in AllKeys \ { << >> } }
    \cup { Join(k, Slash) \o << Slash >> : k \in AllKeys \ { << >> } }
    \cup { Join(rel, Slash) : rel \in QRels }
    \cup { Join(rel, Slash) \o << Slash >> : rel \in QRels }

-----------------------------------------------------------------------------
(* contextor/utils.py should_exclude                                       *)

\* The directory branch as a raw string prefix of the directory name.
DefaultMatch_RawPrefix(pattern, rel_path_str) ==
    IF EndsWith(pattern, << Slash >>)
    THEN StartsWith(rel_path_str, SubSeq(pattern, 1, Len(pattern) - 1))
    ELSE IF Contains(pattern, Star)
    THEN LET pattern_parts == Split(pattern, Star)
         IN  /\ Len(pattern_parts) = 2
             /\ StartsWith(rel_path_str, pattern_parts[1])
             /\ EndsWith(rel_path_str, pattern_parts[2])
    ELSE rel_path_str = pattern

\* One pattern of DEFAULT_EXCLUSIONS against rel_path_str (lines 46-66).
DefaultMatch(pattern, rel_path_str) ==
    IF EndsWith(pattern, << Slash >>)
    THEN \/ rel_path_str = pattern
         \/ StartsWith(rel_path_str, pattern)
         \/ /\ Contains(rel_path_str, Slash)
            /\ LET parts == Split(rel_path_str, Slash)
               IN  \E i \in 1..Len(parts) :
                      Join(SubSeq(parts, 1, i), Slash) \o << Slash >> = pattern
    ELSE IF Contains(pattern, Star)
    THEN LET pattern_parts == Split(pattern, Star)
         IN  /\ Len(pattern_parts) = 2
             /\ StartsWith(rel_path_str, pattern_parts[1])
             /\ EndsWith(rel_path_str, pattern_parts[2])
    ELSE rel_path_str = pattern

\* The loop of line 45 returns True at the first pattern that matches, so
\* its answer is the same for every iteration order of the set.
DefaultLoop(rel_path_str) ==
    \E pattern \in DEFAULT_EXCLUSIONS : DefaultMatch(pattern, rel_path_str)

\* DefaultLoop, computed once for every rel_path_str of the model.
default_table == [r \in RelStrs |-> DefaultLoop(r)]

DefaultHit(rel_path_str) ==
    IF rel_path_str \in RelStrs THEN default_table[rel_path_str]
    ELSE DefaultLoop(rel_path_str)

\* rel_path_str as should_exclude builds it (both modules).
RelPathStr(rel, is_dir) == IF is_dir THEN rel \o << Slash >> ELSE rel

\* should_exclude asking the user spec before the defaults.
ExcludeOutcome_SpecFirst(path, base_path, is_dir, sp) ==
    LET r == relative_to(path, base_path)
        rel_path_str == RelPathStr(r.rel, is_dir)
    IN  IF ~r.ok THEN [excluded |-> FALSE, consulted |-> FALSE]
        ELSE IF ~sp.none
        THEN [excluded |-> match_file(sp.patterns, rel_path_str), consulted |-> TRUE]
        ELSE [excluded |-> DefaultHit(rel_path_str), consulted |-> FALSE]

\* should_exclude answering True from its except branch.
ExcludeOutcome_FailClosed(path, base_path, is_dir, sp) ==
    LET r == relative_to(path, base_path)
        rel_path_str == RelPathStr(r.rel, is_dir)
    IN  IF ~r.ok THEN [excluded |-> TRUE, consulted |-> FALSE]
        ELSE IF DefaultHit(rel_path_str)
        THEN [excluded |-> TRUE, consulted |-> FALSE]
        ELSE IF ~sp.none
        THEN [excluded |-> match_file(sp.patterns, rel_path_str), consulted |-> TRUE]
        ELSE [excluded |-> FALSE, consulted |-> FALSE]

\* The outcome of should_exclude (lines 35-74): the value returned and
\* whether spec.match_file was called on the way.
ExcludeOutcome(path, base_path, is_dir, sp) ==
    LET r == relative_to(path, base_path)
        rel_path_str == RelPathStr(r.rel, is_dir)
    IN  IF ~r.ok THEN [excluded |-> FALSE, consulted |-> FALSE]
        ELSE IF DefaultHit(rel_path_str)
        THEN [excluded |-> TRUE, consulted |-> FALSE]
        ELSE IF ~sp.none
        THEN [excluded |-> match_file(sp.patterns, rel_path_str), consulted |-> TRUE]
        ELSE [excluded |-> FALSE, consulted |-> FALSE]

should_exclude(path, base_path, is_dir, sp) ==
    ExcludeOutcome(path, base_path, is_dir, sp).excluded

(* codecontextor/main.py should_exclude                                    *)
main_should_exclude(path, base_path, is_dir, sp) ==
    IF sp.none THEN FALSE
    ELSE LET r == relative_to(path, base_path)
         IN  IF ~r.ok THEN FALSE
             ELSE match_file(sp.patterns, RelPathStr(r.rel, is_dir))

-----------------------------------------------------------------------------
(* contextor/utils.py is_binary_file, is_signature_file                    *)

BinaryByExtension(file_path) ==
    \E ext \in binary_extensions : EndsWith(Lower(file_path), ext)

\* b'\0' in f.read(): the whole content is searched.
NullInChunk_WholeFile(node) ==
    /\ node.firstNull >= 0
    /\ node.firstNull < node.size

\* b'\0' in f.read(1024): node.firstNull is the offset of the first null
\* byte of the content, -1 when it has none.
NullInChunk(node) ==
    /\ node.firstNull >= 0
    /\ node.firstNull < node.size
    /\ node.firstNull < READ_CHUNK

is_signature_file(file_path) ==
    \/ EndsWith(file_path, <<".","p","y">>)
    \/ EndsWith(Lower(file_path), <<".","m","d">>)
    \/ EndsWith(Lower(file_path), <<".","m","a","r","k","d","o","w","n">>)
    \/ EndsWith(Lower(file_path), <<".","j","s">>)
    \/ EndsWith(Lower(file_path), <<".","j","s","x">>)
    \/ EndsWith(Lower(file_path), <<".","t","s">>)
    \/ EndsWith(Lower(file_path), <<".","t","s","x">>)
    \/ EndsWith(Lower(file_path), <<".","s","q","l">>)

\* The size test of line 178 with >= for >.
TooLarge_Inclusive(size) == size >= MaxFileSize

TooLarge(size) == size > MaxFileSize

-----------------------------------------------------------------------------
(* The pure functions above, computed once for the paths of a scan.        *)

exclude_table ==
    [a \in { << PathTable[<< d, n.key >>], d, n.dir, sp >> :
               d \in Directories, n \in Universe, sp \in ScanSpecs } |->
        should_exclude(a[1], a[2], a[3], a[4])]

binary_ext_table == [p \in ScanPaths |-> BinaryByExtension(p)]

signature_table == [p \in ScanPaths |-> is_signature_file(p)]

abspath_table == [p \in ScanPaths |-> abspath(p)]

less_table == [ab \in ScanPaths \X ScanPaths |-> StrLess(ab[1], ab[2])]

\* Line 112 for one line f of the git output.
tracked_table ==
    [dk \in Directories \X AllKeys |->
        normpath(abspath(os_path_join(dk[1], Join(dk[2], Slash))))]

-----------------------------------------------------------------------------
(* sorted()                                                                *)

Less(a, b) ==
    IF << a, b >> \in DOMAIN less_table THEN less_table[<< a, b >>] ELSE StrLess(a, b)

RECURSIVE InsertSorted(_, _)
InsertSorted(x, s) ==
    IF Len(s) = 0 THEN << x >>
    ELSE IF Less(x, s[1]) THEN << x >> \o s
    ELSE << s[1] >> \o InsertSorted(x, Tail(s))

RECURSIVE SortFrom(_, _)
SortFrom(s, acc) ==
    IF Len(s) = 0 THEN acc ELSE SortFrom(Tail(s), InsertSorted(s[1], acc))

\* The list returned as it was filled.
sorted_Unsorted(s) == s

\* sorted(list) on str: ascending, by insertion.
sorted(s) == SortFrom(s, << >>)

-----------------------------------------------------------------------------
(* The scanned tree as the program sees it: by path string.                *)

PathOf(key) == PathTable[<< directory, key >>]

key_table ==
    [dp \in { << dk[1], PathTable[dk] >> : dk \in Directories \X AllKeys } |->
        CHOOSE k \in AllKeys : PathTable[<< dp[1], k >>] = dp[2]]

node_table == [k \in AllKeys \ { << >> } |-> CHOOSE n \in Universe : n.key = k]

children_table ==
    [k \in AllKeys |->
        { n \in Universe : Len(n.key) = Len(k) + 1 /\ SubSeq(n.key, 1, Len(k)) = k }]

\* The key of the entry a path string of the walk names.
KeyOf(path) == key_table[<< directory, path >>]

Exists(path) == KeyOf(path) # << >> /\ PresentIn(fs, KeyOf(path))

FsNode(path) == node_table[KeyOf(path)]

\* os.path.isdir / Path.is_dir
IsDir(path) ==
    IF KeyOf(path) = << >> THEN fs.root # "missing"
    ELSE Exists(path) /\ FsNode(path).dir

\* os.scandir(path) succeeds.
Listable(path) ==
    IF KeyOf(path) = << >> THEN fs.root = "ok"
    ELSE IsDir(path) /\ FsNode(path).listable

ChildNames(path, wantDir) ==
    { n.key[Len(n.key)] : n \in { m \in children_table[KeyOf(path)] :
          m.dir = wantDir /\ PresentIn(fs, m.key) } }

RECURSIVE SeqOfSet(_)
SeqOfSet(S) ==
    IF S = {} THEN << >>
    ELSE LET x == CHOOSE y \in S : \A z \in S \ { y } : StrLess(y, z)
         IN  << x >> \o SeqOfSet(S \ { x })

Reverse(s) == [i \in 1..Len(s) |-> s[Len(s) + 1 - i]]

\* The names os.walk hands over for one directory, in the order the
\* filesystem lists them.
Listed(path, wantDir, order) ==
    IF order = "asc" THEN SeqOfSet(ChildNames(path, wantDir))
    ELSE Reverse(SeqOfSet(ChildNames(path, wantDir)))

Call(op, path) == [op |-> op, path |-> path]

\* should_exclude(path, directory, spec) for an entry of the scanned tree.
ScanExcludes(path, is_dir) == exclude_table[<< path, directory, is_dir, spec >>]

\* should_exclude(Path(path), directory, spec) as the scan calls it.
Excluded(path) == ScanExcludes(path, IsDir(path))

\* Lines 86-95 with the content looked at whatever the extension is.
BinaryCheck_AlwaysSniff(by_ext, node) ==
    IF ~node.readable THEN [binary |-> TRUE, opened |-> TRUE, read |-> 0]
    ELSE [binary |-> by_ext \/ NullInChunk(node), opened |-> TRUE,
          read |-> IF node.size < READ_CHUNK THEN node.size ELSE READ_CHUNK]

\* Lines 86-95 for a path whose extension test gave by_ext and the file
\* `node`: the answer, whether open() was called and how many bytes were
\* read.  open() raises IOError for a file that is unreadable or absent.
BinaryCheck(by_ext, node) ==
    IF by_ext THEN [binary |-> TRUE, opened |-> FALSE, read |-> 0]
    ELSE IF ~node.readable THEN [binary |-> TRUE, opened |-> TRUE, read |-> 0]
    ELSE [binary |-> NullInChunk(node), opened |-> TRUE,
          read |-> IF node.size < READ_CHUNK THEN node.size ELSE READ_CHUNK]

\* is_binary_file(file_path) for the file `node` of the scanned tree.
is_binary_file(file_path, node) ==
    BinaryCheck(binary_ext_table[file_path], node).binary

-----------------------------------------------------------------------------
(* contextor/utils.py is_git_repo, get_git_tracked_files                   *)

\* The query made whether or not the directory holds .git.
is_git_repo_Always(path) == TRUE

\* The query never made, as if no directory held .git.
is_git_repo_Never(path) == FALSE

is_git_repo(path) == IsDir(os_path_join(path, n_git))

\* result.stdout.splitlines(): the keys of the files git lists.
GitListed ==
    { m.key : m \in { n \in Universe :
                        /\ ~n.dir
                        /\ PresentIn(fs, n.key)
                        /\ n.key[1] \notin git.untracked } }

\* The exceptions the except clause of line 114 catches; CalledProcessError
\* and TimeoutExpired are the subclasses of subprocess.SubprocessError.
GitCaught == { "CalledProcessError", "TimeoutExpired", "FileNotFoundError" }

\* Lines 101-116 with the paths of the listing returned as git printed them.
get_git_tracked_files_AsListed(path) ==
    IF git.error = "none"
    THEN [raised |-> FALSE, files |-> { Join(k, Slash) : k \in GitListed }]
    ELSE [raised |-> git.error \notin GitCaught, files |-> {}]

\* Lines 101-116: raised tells whether an exception leaves the function,
\* files is the set returned otherwise.
get_git_tracked_files(path) ==
    IF git.error = "none"
    THEN [raised |-> FALSE, files |-> { tracked_table[<< path, k >>] : k \in GitListed }]
    ELSE [raised |-> git.error \notin GitCaught, files |-> {}]

-----------------------------------------------------------------------------
(* contextor/utils.py scan_project_files                                   *)

\* Lines 157-162 with dirnames extended instead of replaced.
FilteredDirs_Extend(root, dirnames) ==
    dirnames \o SelectSeq(dirnames, LAMBDA d : ~Excluded(os_path_join(root, d)))

\* Lines 157-162 with the exclusion test left out.
FilteredDirs_NoPrune(root, dirnames) == dirnames

\* Lines 157-162: the subdirectories os.walk goes on into.
FilteredDirs(root, dirnames) ==
    SelectSeq(dirnames, LAMBDA d : ~Excluded(os_path_join(root, d)))

DirCalls(root, dirnames) ==
    [i \in 1..Len(dirnames) |-> Call("exclude", os_path_join(root, dirnames[i]))]

\* Lines 177-182 with the OSError of stat() not caught.
SizeCheck_Uncaught(node) ==
    IF ~node.statOK THEN "raise"
    ELSE IF TooLarge(node.size) THEN "continue"
    ELSE "pass"

\* Lines 177-182: the size check of one file.  A stat() that fails raises
\* OSError, which is caught and skips the file like an oversized one.
SizeCheck(node) ==
    IF ~node.statOK THEN "continue"
    ELSE IF TooLarge(node.size) THEN "continue"
    ELSE "pass"

\* Lines 164-191 for one filename; acc holds the two lists, the calls and
\* whether an exception is on its way out of the loop.
FileStep(root, filename, acc) ==
    LET file_path == os_path_join(root, filename)
        abs_path == abspath_table[file_path]
        node == FsNode(file_path)
        c1 == Append(acc.calls, Call("exclude", file_path))
        c2 == Append(c1, Call("open", file_path))
        c3 == Append(c2, Call("stat", file_path))
    IN  IF Excluded(file_path)
        THEN [acc EXCEPT !.calls = c1]
        ELSE IF binary_ext_table[file_path]
        THEN [acc EXCEPT !.calls = c1]
        ELSE IF is_binary_file(file_path, node)
        THEN [acc EXCEPT !.calls = c2]
        ELSE IF SizeCheck(node) = "raise"
        THEN [acc EXCEPT !.calls = c3, !.raised = TRUE]
        ELSE IF SizeCheck(node) = "continue"
        THEN [acc EXCEPT !.calls = c3]
        ELSE [raised |-> FALSE,
              all |-> Append(acc.all, file_path),
              sig |-> IF /\ signature_table[file_path]
                         /\ (~git_only_signatures \/ abs_path \in git_tracked)
                      THEN Append(acc.sig, file_path)
                      ELSE acc.sig,
              calls |-> c3]

RECURSIVE FileLoop(_, _, _)
FileLoop(root, filenames, acc) ==
    IF Len(filenames) = 0 \/ acc.raised THEN acc
    ELSE FileLoop(root, Tail(filenames), FileStep(root, filenames[1], acc))

IdleQuery == [path |-> << >>, base |-> << >>, is_dir |-> FALSE, spec |-> NoSpec]

NoCall == [called |-> "none", excluded |-> FALSE, consulted |-> FALSE]

NoResult ==
    [none |-> TRUE, all_files |-> << >>, signature_candidates |-> << >>,
     git_tracked |-> {}, listing |-> "asc"]

Init ==
    /\ fs \in Trees
    /\ directory \in Directories
    /\ spec \in ScanSpecs
    /\ git_only_signatures \in BOOLEAN
    /\ git \in GitOutcomes(fs)
    /\ pc = "start"
    /\ stack = << >>
    /\ listing = "asc"
    /\ all_files = << >>
    /\ signature_candidates = << >>
    /\ git_tracked = {}
    /\ result = NoResult
    /\ prev_result = NoResult
    /\ calls = << >>
    /\ q = IdleQuery
    /\ qres = NoCall

\* Lines 145-151; the order in which the filesystem will list entries during
\* this scan is fixed here.
StartScan ==
    /\ pc = "start"
    /\ listing' \in Orders
    /\ all_files' = << >>
    /\ signature_candidates' = << >>
    /\ IF is_git_repo(directory)
       THEN LET tracked == get_git_tracked_files(directory)
            IN  /\ git_tracked' = tracked.files
                /\ calls' = << Call("git", directory) >>
                /\ pc' = IF tracked.raised THEN "raised" ELSE "walk"
       ELSE /\ git_tracked' = {}
            /\ calls' = << >>
            /\ pc' = "walk"
    /\ stack' = << directory >>
    /\ UNCHANGED << fs, directory, spec, git_only_signatures, git, result,
                    prev_result, q, qres >>

\* One iteration of the for loop over os.walk (lines 154-191): the next
\* directory is listed, its subdirectories are filtered, its files classified.
\* A directory that cannot be listed is passed over by os.walk.
WalkStep ==
    /\ pc = "walk"
    /\ Len(stack) > 0
    /\ LET root == stack[1]
           listed == Append(calls, Call("listdir", root))
       IN  IF ~Listable(root)
           THEN /\ stack' = Tail(stack)
                /\ calls' = listed
                /\ UNCHANGED << all_files, signature_candidates, pc >>
           ELSE LET dirnames == Listed(root, TRUE, listing)
                    filenames == Listed(root, FALSE, listing)
                    kept == FilteredDirs(root, dirnames)
                    acc == FileLoop(root, filenames,
                                    [raised |-> FALSE, all |-> all_files,
                                     sig |-> signature_candidates,
                                     calls |-> listed \o DirCalls(root, dirnames)])
                IN  /\ stack' = [i \in 1..Len(kept) |-> os_path_join(root, kept[i])]
                                \o Tail(stack)
                    /\ all_files' = acc.all
                    /\ signature_candidates' = acc.sig
                    /\ calls' = acc.calls
                    /\ pc' = IF acc.raised THEN "raised" ELSE pc
    /\ UNCHANGED << fs, directory, spec, git_only_signatures, git, listing,
                    git_tracked, result, prev_result, q, qres >>

\* Lines 193-197.
Finish ==
    /\ pc = "walk"
    /\ Len(stack) = 0
    /\ result' = [none |-> FALSE,
                  all_files |-> sorted(all_files),
                  signature_candidates |-> sorted(signature_candidates),
                  git_tracked |-> git_tracked,
                  listing |-> listing]
    /\ pc' = "done"
    /\ UNCHANGED << fs, directory, spec, git_only_signatures, git, stack, listing,
                    all_files, signature_candidates, git_tracked, prev_result,
                    calls, q, qres >>

\* The caller scans the same, unmodified tree a second time with the same
\* arguments; the locals of the first call are gone.
Rescan ==
    /\ pc = "done"
    /\ prev_result.none
    /\ prev_result' = result
    /\ pc' = "start"
    /\ stack' = << >>
    /\ calls' = << >>
    /\ all_files' = << >>
    /\ signature_candidates' = << >>
    /\ git_tracked' = {}
    /\ UNCHANGED << fs, directory, spec, git_only_signatures, git, listing,
                    result, q, qres >>

Next == StartScan \/ WalkStep \/ Finish \/ Rescan

Spec == Init /\ [][Next]_vars

-----------------------------------------------------------------------------
(* Direct calls of should_exclude, one per behaviour.                      *)

InitExclude ==
    /\ fs = [root |-> "missing", top |-> {}]
    /\ directory = << >>
    /\ spec = NoSpec
    /\ git_only_signatures = FALSE
    /\ git = [error |-> "none", untracked |-> {}]
    /\ pc = "idle"
    /\ stack = << >>
    /\ listing = "asc"
    /\ all_files = << >>
    /\ signature_candidates = << >>
    /\ git_tracked = {}
    /\ result = NoResult
    /\ prev_result = NoResult
    /\ calls = << >>
    /\ q \in Queries
    /\ qres = NoCall

\* contextor.utils.should_exclude(Path(q.path), q.base, q.spec)
CallShouldExclude ==
    /\ qres.called = "none"
    /\ LET o == ExcludeOutcome(q.path, q.base, q.is_dir, q.spec)
       IN  qres' = [called |-> "utils", excluded |-> o.excluded,
                    consulted |-> o.consulted]
    /\ UNCHANGED << scanVars, q >>

\* codecontextor.main.should_exclude(Path(q.path), q.base, q.spec)
CallMainShouldExclude ==
    /\ qres.called = "none"
    /\ qres' = [called |-> "main",
                excluded |-> main_should_exclude(q.path, q.base, q.is_dir, q.spec),
                consulted |-> ~q.spec.none /\ relative_to(q.path, q.base).ok]
    /\ UNCHANGED << scanVars, q >>

NextExclude == CallShouldExclude \/ CallMainShouldExclude

SpecExclude == InitExclude /\ [][NextExclude]_vars

-----------------------------------------------------------------------------
(* Properties of should_exclude, checked under SpecExclude.                *)

\* The relative path of the call in q, independently of relative_to: base
\* is a leading part of path.
QResolves ==
    LET pp == Parts(q.path)
        bp == Parts(q.base)
    IN  Len(bp) <= Len(pp) /\ \A i \in 1..Len(bp) : pp[i] = bp[i]

QRel == RelPathStr(relative_to(q.path, q.base).rel, q.is_dir)

\* The segments of rel_path_str that name directories: all but the last,
\* and the last too when the path is a directory.
QDirSegs ==
    LET segs == DropEmptyAndDot(Split(QRel, Slash))
    IN  IF q.is_dir THEN segs ELSE SubSeq(segs, 1, Len(segs) - 1)

\* C4: a relative path matched by a default pattern is excluded for every
\* user spec, a negating one included, and the user spec is consulted only
\* when no default pattern matches.
C4_DefaultsTakePrecedence ==
    (qres.called = "utils" /\ QResolves) =>
        /\ (\E p \in DEFAULT_EXCLUSIONS : DefaultMatch(p, QRel)) => qres.excluded
        /\ qres.consulted => ~\E p \in DEFAULT_EXCLUSIONS : DefaultMatch(p, QRel)

\* A call on a path below build/ with a spec whose last word on it is a
\* negation, answered True without asking the spec.
C4_Witness ==
    /\ qres.called = "utils"
    /\ QResolves
    /\ ~q.spec.none
    /\ \E i \in 1..Len(q.spec.patterns) :
          /\ IsNegated(q.spec.patterns[i])
          /\ PatternMatches(PatternOf(q.spec.patterns[i]), QRel)
    /\ ~match_file(q.spec.patterns, QRel)
    /\ QRel = <<"b","u","i","l","d","/","d","i","s","t","/","o","u","t","p","u","t",".","j","s">>
    /\ qres.excluded
    /\ ~qres.consulted

\* p names the directory at the head of rel: rel is p or lies under p.
IsOrUnder(p, rel) ==
    LET ps == DropEmptyAndDot(Split(p, Slash))
        rs == DropEmptyAndDot(Split(rel, Slash))
    IN  \/ rel = p
        \/ Len(rs) > Len(ps) /\ SubSeq(rs, 1, Len(ps)) = ps

\* The first segment of rel is longer than the directory name of p and
\* starts with it.
FirstSegmentExtends(p, rel) ==
    LET nm == SubSeq(p, 1, Len(p) - 1)
        rs == DropEmptyAndDot(Split(rel, Slash))
    IN  /\ Len(rs) > 0
        /\ Len(rs[1]) > Len(nm)
        /\ StartsWith(rs[1], nm)

\* C5: for a default directory pattern p, a relative path equal to p or under
\* the directory p is excluded; a path whose first segment merely starts with
\* the directory name is not matched by p, and is not excluded when nothing
\* else excludes it.
C5_SegmentAwarePrefix ==
    (qres.called = "utils" /\ QResolves) =>
        \A p \in DirPatterns :
            /\ IsOrUnder(p, QRel) => qres.excluded
            /\ FirstSegmentExtends(p, QRel) =>
                  /\ ~DefaultMatch(p, QRel)
                  /\ ( /\ q.spec.none
                       /\ \A p2 \in DEFAULT_EXCLUSIONS \ { p } : ~DefaultMatch(p2, QRel) )
                     => ~qres.excluded

\* buildtools/file.txt, with no user spec, is answered False.
C5_Witness ==
    /\ qres.called = "utils"
    /\ QResolves
    /\ q.spec.none
    /\ QRel = <<"b","u","i","l","d","t","o","o","l","s","/","f","i","l","e",".","t","x","t">>
    /\ FirstSegmentExtends(<<"b","u","i","l","d","/">>, QRel)
    /\ ~qres.excluded

\* C6: if a directory segment of the relative path, at any depth, equals the
\* name of a default directory pattern, should_exclude returns True.
C6_AncestorSegment ==
    (qres.called = "utils" /\ QResolves) =>
        \A p \in DirPatterns :
            (\E i \in 1..Len(QDirSegs) : QDirSegs[i] \o << Slash >> = p)
                => qres.excluded

\* C7: when the path is not relative to base_path, both should_exclude
\* functions return False, whatever the spec and the name of the path.
C7_FailOpen ==
    (qres.called # "none" /\ ~QResolves) => (~qres.excluded /\ ~qres.consulted)

\* /q/node_modules/ asked against base /p: a name the defaults exclude.
C7_Witness ==
    /\ qres.called = "utils"
    /\ ~QResolves
    /\ q.path = <<"/","q","/","n","o","d","e","_","m","o","d","u","l","e","s">>
    /\ q.base = <<"/","p">>
    /\ q.is_dir
    /\ ~qres.excluded

-----------------------------------------------------------------------------
(* Properties of scan_project_files, checked under Spec.                   *)

\* path names something strictly below the directory dpath.
Below(path, dpath) == StartsWith(path, dpath \o << Slash >>)

WalkOps == { "listdir", "exclude", "open", "stat" }

ReportedPaths ==
    Range(all_files) \cup Range(signature_candidates)
    \cup Range(result.all_files) \cup Range(result.signature_candidates)

\* C1: for every subdirectory D with should_exclude(D) true, the walk never
\* lists D, never exclusion-checks, opens or stats anything below D, and no
\* path below D is in all_files or signature_candidates.
C1_DirectoryPruning ==
    \A D \in DirNodes(fs) :
        ScanExcludes(PathOf(D.key), TRUE) =>
            /\ \A i \in 1..Len(calls) :
                  calls[i].op \in WalkOps =>
                      /\ ~Below(calls[i].path, PathOf(D.key))
                      /\ ~(calls[i].op = "listdir" /\ calls[i].path = PathOf(D.key))
            /\ \A f \in ReportedPaths : ~Below(f, PathOf(D.key))

\* A finished scan of a tree holding build/dist/output.js, where build/ was
\* exclusion-checked and other files were reported.
C1_Witness ==
    /\ pc = "done"
    /\ fs.root = "ok"
    /\ n_build \in fs.top
    /\ ScanExcludes(PathOf(<< n_build >>), TRUE)
    /\ Call("exclude", PathOf(<< n_build >>)) \in Range(calls)
    /\ Len(result.all_files) > 0

NoRepeat(s) == \A i, j \in 1..Len(s) : i # j => s[i] # s[j]

\* C2: in one scan every directory is listed at most once, every entry is
\* exclusion-checked, opened and statted at most once, and both lists are
\* filled by that one walk: every reported file was statted by it, a
\* candidate is a reported file, and nothing is reported twice.
C2_SinglePass ==
    /\ NoRepeat(calls)
    /\ NoRepeat(all_files)
    /\ NoRepeat(signature_candidates)
    /\ \A f \in Range(all_files) : Call("stat", f) \in Range(calls)
    /\ Range(signature_candidates) \subseteq Range(all_files)

\* A finished scan that listed at least three directories and found at least
\* two candidates.
C2_Witness ==
    /\ pc = "done"
    /\ Cardinality({ i \in 1..Len(calls) : calls[i].op = "listdir" }) >= 3
    /\ Len(result.signature_candidates) >= 2

\* Every directory between the scanned directory and the file can be listed
\* and is not excluded, and the file passes the three tests of the loop.
Admitted(n) ==
    /\ \A i \in 1..(Len(n.key) - 1) :
          /\ node_table[SubSeq(n.key, 1, i)].listable
          /\ ~ScanExcludes(PathOf(SubSeq(n.key, 1, i)), TRUE)
    /\ ~ScanExcludes(PathOf(n.key), FALSE)
    /\ ~is_binary_file(PathOf(n.key), n)
    /\ n.statOK
    /\ n.size <= 10 * 1024 * 1024

AdmittedPaths ==
    IF fs.root = "ok"
    THEN { PathOf(n.key) : n \in { m \in FileNodes(fs) : Admitted(m) } }
    ELSE {}

\* C3: after a scan of an accessible directory, all_files holds exactly the
\* files whose ancestors are listable and not excluded and that are not
\* excluded, not binary, and of a readable size of at most 10 MiB.
C3_AllFilesMembership ==
    (pc = "done" /\ fs.root = "ok") => Range(result.all_files) = AdmittedPaths

\* A finished scan that reported the file of exactly 10 MiB and left out the
\* one a byte larger, the one whose size cannot be read and the one under an
\* unlistable directory.
C3_Witness ==
    /\ pc = "done"
    /\ fs.root = "ok"
    /\ fs.top = { n_data, n_locked }
    /\ PathOf(<< n_data, <<"e","d","g","e",".","m","d">> >>) \in Range(result.all_files)
    /\ PathOf(<< n_data, <<"b","i","g",".","s","q","l">> >>) \notin Range(result.all_files)
    /\ PathOf(<< n_data, <<"g","o","n","e",".","p","y">> >>) \notin Range(result.all_files)
    /\ PathOf(<< n_locked, <<"x",".","p","y">> >>) \notin Range(result.all_files)

SignatureExtensions ==
    { <<".","p","y">>, <<".","m","d">>, <<".","m","a","r","k","d","o","w","n">>, <<".","j","s">>, <<".","j","s","x">>, <<".","t","s">>, <<".","t","s","x">>, <<".","s","q","l">> }

\* os.path.splitext(path)[1]: from the last dot of the last segment, a
\* leading dot of the segment not counted.
Extension(path) ==
    LET segs == Split(path, Slash)
        name == segs[Len(segs)]
        dots == { i \in 2..Len(name) : name[i] = Dot }
    IN  IF dots = {} THEN << >>
        ELSE SubSeq(name, CHOOSE i \in dots : \A j \in dots : j <= i, Len(name))

\* C8: signature_candidates holds exactly the files of all_files whose
\* extension is in the signature set and that are tracked when tracking is
\* required.  The claim does not say whether the extension is compared
\* with or without case folding; the formula asks that one of the two
\* conventions describes the whole result.
C8_SignatureCandidacy ==
    pc = "done" =>
        \E fold \in BOOLEAN :
            Range(result.signature_candidates) =
                { f \in Range(result.all_files) :
                    /\ (IF fold THEN Lower(Extension(f)) ELSE Extension(f))
                           \in SignatureExtensions
                    /\ (~git_only_signatures \/ abspath(f) \in result.git_tracked) }

\* C9: with tracking required and no .git in the scanned directory, the
\* tracked set and signature_candidates are empty, and all_files is what the
\* tree alone determines.
C9_NoRepoNoCandidates ==
    (pc = "done" /\ git_only_signatures /\ ~PresentIn(fs, << n_git >>)) =>
        /\ result.git_tracked = {}
        /\ result.signature_candidates = << >>
        /\ Range(result.all_files) = AdmittedPaths

\* A finished scan, tracking required, of a tree without .git that reported
\* src/app.py.
C9_Witness ==
    /\ pc = "done"
    /\ git_only_signatures
    /\ ~PresentIn(fs, << n_git >>)
    /\ PathOf(<< n_src, <<"a","p","p",".","p","y">> >>) \in Range(result.all_files)
    /\ result.signature_candidates = << >>

Ascending(s) == \A i \in 1..(Len(s) - 1) : StrLess(s[i], s[i + 1])

\* C10: both lists are returned in ascending order of path, and a second scan
\* of the unmodified tree returns the same two lists, whatever the order in
\* which the filesystem listed the entries.
C10_Determinism ==
    pc = "done" =>
        /\ Ascending(result.all_files)
        /\ Ascending(result.signature_candidates)
        /\ ~prev_result.none =>
              /\ result.all_files = prev_result.all_files
              /\ result.signature_candidates = prev_result.signature_candidates

\* A second scan that met the entries in the other order, filled its list in
\* an order that is not the returned one, and returned four files or more.
C10_Witness ==
    /\ pc = "done"
    /\ ~prev_result.none
    /\ prev_result.listing # result.listing
    /\ all_files # result.all_files
    /\ Len(result.all_files) >= 4

-----------------------------------------------------------------------------
(* Failure handling of scan_project_files, checked under Spec.             *)

\* C11: a scan of a missing or inaccessible root directory does not end by
\* returning a normal result to the caller.
C11_RootFailureReported ==
    pc = "done" => fs.root = "ok"

-----------------------------------------------------------------------------
(* Direct calls of get_git_tracked_files, one per behaviour: in any         *)
(* directory, repository or not.                                           *)

\* What the git query can do when get_git_tracked_files is called on its
\* own: without the directory subprocess.run raises FileNotFoundError, in a
\* directory that is no repository git exits with a non-zero status.
GitCallOutcomes(f) ==
    IF f.root = "missing" THEN { [error |-> "FileNotFoundError", untracked |-> {}] }
    ELSE IF PresentIn(f, << n_git >>) THEN GitOutcomes(f)
    ELSE { [error |-> e, untracked |-> {}] : e \in GitErrors }

InitGit ==
    /\ fs \in Trees
    /\ directory \in Directories
    /\ spec = NoSpec
    /\ git_only_signatures = FALSE
    /\ git \in GitCallOutcomes(fs)
    /\ pc = "idle"
    /\ stack = << >>
    /\ listing = "asc"
    /\ all_files = << >>
    /\ signature_candidates = << >>
    /\ git_tracked = {}
    /\ result = NoResult
    /\ prev_result = NoResult
    /\ calls = << >>
    /\ q = IdleQuery
    /\ qres = NoCall

\* get_git_tracked_files(directory)
CallGetGitTrackedFiles ==
    /\ qres.called = "none"
    /\ LET tracked == get_git_tracked_files(directory)
       IN  qres' = [called |-> "get_git_tracked_files",
                    raised |-> tracked.raised, files |-> tracked.files]
    /\ UNCHANGED << scanVars, q >>

NextGit == CallGetGitTrackedFiles

SpecGit == InitGit /\ [][NextGit]_vars

\* The absolute path of the entry `key` of the directory dir, segment by
\* segment: the working directory first when dir is relative.
AbsoluteOf(dir, key) ==
    LET names(p) == SelectSeq(Split(p, Slash), LAMBDA n : n # << >>)
        segs == (IF isabs(dir) THEN << >> ELSE names(Cwd)) \o names(dir) \o key
    IN  << Slash >> \o Join(segs, Slash)

\* C13: get_git_tracked_files raises nothing; when the git query fails it
\* returns the empty set, and when it succeeds it returns exactly the
\* absolute normalized paths of the listed files below the directory.
C13_GitTrackedFiles ==
    qres.called = "get_git_tracked_files" =>
        /\ ~qres.raised
        /\ git.error # "none" => qres.files = {}
        /\ git.error = "none" =>
              qres.files = { AbsoluteOf(directory, k) : k \in GitListed }

\* A successful query in a relative directory that lists a nested file.
C13_Witness ==
    /\ qres.called = "get_git_tracked_files"
    /\ git.error = "none"
    /\ directory = <<"p">>
    /\ <<"/","w","/","p","/","s","r","c","/","a","p","p",".","p","y">> \in qres.files
    /\ <<"/","w","/","p","/","R","E","A","D","M","E",".","m","d">> \in qres.files

-----------------------------------------------------------------------------
(* Direct calls of is_binary_file, one per behaviour: q holds the path and  *)
(* what is found at it.                                                    *)

BinaryNames ==
    { <<"i","m","g",".","p","n","g">>, <<"I","M","G",".","P","N","G">>, <<"a",".","t","a","r",".","g","z">>, <<".","b","i","n">>, <<"n","o","t","e","s",".","t","x","t">>,
      <<"p","n","g">>, <<"x",".","p","n","g","s">>, <<"g","z",".","m","d">> }

BinaryPaths ==
    { os_path_join(d, n) : d \in { <<"/","p">>, <<"p","/","d","o","c","s">> }, n \in BinaryNames }

\* Sizes and offsets of the first null byte around the 1024 bytes read.
BinarySizes == { 0, 100, READ_CHUNK, READ_CHUNK + 1, 3 * READ_CHUNK }

BinaryNulls == { -1, 0, 99, READ_CHUNK - 1, READ_CHUNK, 2 * READ_CHUNK }

\* The file at the path of the call: absent, unreadable, or readable with a
\* content of some size and a first null byte somewhere in it, or none.
BinaryFiles ==
    { [state |-> "absent", node |-> File(<< >>, FALSE, FALSE, 0, -1)],
      [state |-> "unreadable", node |-> File(<< >>, FALSE, TRUE, 100, 0)] }
    \cup { f \in { [state |-> "readable", node |-> File(<< >>, TRUE, TRUE, sz, nul)] :
                      sz \in BinarySizes, nul \in BinaryNulls } :
             f.node.firstNull < f.node.size }

InitBinary ==
    /\ fs = [root |-> "missing", top |-> {}]
    /\ directory = << >>
    /\ spec = NoSpec
    /\ git_only_signatures = FALSE
    /\ git = [error |-> "none", untracked |-> {}]
    /\ pc = "idle"
    /\ stack = << >>
    /\ listing = "asc"
    /\ all_files = << >>
    /\ signature_candidates = << >>
    /\ git_tracked = {}
    /\ result = NoResult
    /\ prev_result = NoResult
    /\ calls = << >>
    /\ q \in { [path |-> p, file |-> f] : p \in BinaryPaths, f \in BinaryFiles }
    /\ qres = NoCall

\* is_binary_file(q.path)
CallIsBinaryFile ==
    /\ qres.called = "none"
    /\ LET o == BinaryCheck(BinaryByExtension(q.path), q.file.node)
       IN  qres' = [called |-> "is_binary_file", binary |-> o.binary,
                    opened |-> o.opened, read |-> o.read]
    /\ UNCHANGED << scanVars, q >>

NextBinary == CallIsBinaryFile

SpecBinary == InitBinary /\ [][NextBinary]_vars

\* The extension of a path, as the claims on is_binary_file mean it: the
\* part of the file name from its last dot on, case folded.
FoldedExtension(path) ==
    LET segs == Split(path, Slash)
        name == segs[Len(segs)]
        dots == { i \in 1..Len(name) : name[i] = Dot }
    IN  IF dots = {} THEN << >>
        ELSE Lower(SubSeq(name, CHOOSE i \in dots : \A j \in dots : j <= i, Len(name)))

\* C14: for a path with a known-binary extension is_binary_file answers true
\* without opening or reading the file, whatever is found at the path.
C14_ExtensionNeedsNoIO ==
    (qres.called = "is_binary_file" /\ FoldedExtension(q.path) \in binary_extensions) =>
        /\ qres.binary
        /\ ~qres.opened
        /\ qres.read = 0

\* An absent file with a known-binary extension, classified without I/O.
C14_Witness ==
    /\ qres.called = "is_binary_file"
    /\ q.path = <<"p","/","d","o","c","s","/","I","M","G",".","P","N","G">>
    /\ q.file.state = "absent"
    /\ qres.binary
    /\ ~qres.opened

\* C15: for a path without a known-binary extension is_binary_file answers
\* true exactly when the file cannot be opened or a null byte lies within
\* its first 1024 bytes, and it reads 1024 bytes at most.
C15_ContentSniff ==
    (qres.called = "is_binary_file" /\ FoldedExtension(q.path) \notin binary_extensions) =>
        /\ qres.read <= 1024
        /\ qres.binary <=>
              \/ q.file.state # "readable"
              \/ \E off \in 0..1023 :
                    off < q.file.node.size /\ off = q.file.node.firstNull

\* A readable file whose first null byte is at offset 1024, classified as
\* text after 1024 bytes were read.
C15_Witness ==
    /\ qres.called = "is_binary_file"
    /\ q.path = <<"/","p","/","n","o","t","e","s",".","t","x","t">>
    /\ q.file.state = "readable"
    /\ q.file.node.firstNull = 1024
    /\ q.file.node.size = 3 * 1024
    /\ ~qres.binary
    /\ qres.read = 1024

-----------------------------------------------------------------------------
(* codecontextor/main.py format_name, generate_tree.  The box-drawing      *)
(* characters of the tree lines are single characters, written here by     *)
(* their code points.                                                      *)

BoxUpRight == "U+2514"
BoxVerticalRight == "U+251C"
BoxHorizontal == "U+2500"
BoxVertical == "U+2502"
Space == " "

\* Path(path).resolve() of the top-level call.
TreeRoot == abspath(directory)

\* The path of the entry `key` below the resolved root.
TreePath(key) == JoinAll(TreeRoot, key)

NameOf(node) == node.key[Len(node.key)]

\* path.iterdir() for the directory `key`: its entries, in the order the
\* filesystem lists them.
iterdir(key) ==
    LET names == SeqOfSet({ NameOf(m) : m \in { n \in children_table[key] :
                                                  PresentIn(fs, n.key) } })
        ordered == IF listing = "asc" THEN names ELSE Reverse(names)
    IN  [i \in 1..Len(ordered) |-> node_table[key \o << ordered[i] >>]]

\* Line 90: should_exclude(item, path, spec), path being the directory that
\* is iterated.
TreeExcludes(item, key) ==
    main_should_exclude(TreePath(item.key), TreePath(key), item.dir, spec)

\* Line 96 with the names compared as they are.
SortKeyLess_CaseSensitive(a, b) ==
    IF a.dir # b.dir THEN a.dir
    ELSE StrLess(NameOf(a), NameOf(b))

\* Line 96: the sort key (not x.is_dir(), x.name.lower()) of a is less than
\* that of b.
SortKeyLess(a, b) ==
    IF a.dir # b.dir THEN a.dir
    ELSE StrLess(Lower(NameOf(a)), Lower(NameOf(b)))

\* list.sort is stable: x goes before the first item with a greater key.
RECURSIVE InsertByKey(_, _)
InsertByKey(x, s) ==
    IF Len(s) = 0 THEN << x >>
    ELSE IF SortKeyLess(x, s[1]) THEN << x >> \o s
    ELSE << s[1] >> \o InsertByKey(x, Tail(s))

RECURSIVE SortItems(_, _)
SortItems(items, acc) ==
    IF Len(items) = 0 THEN acc
    ELSE SortItems(Tail(items), InsertByKey(items[1], acc))

\* Lines 69-72 with the two connectors exchanged.
format_name_Swapped(item, is_last) ==
    (IF is_last THEN << BoxVerticalRight, BoxHorizontal, BoxHorizontal, Space >>
     ELSE << BoxUpRight, BoxHorizontal, BoxHorizontal, Space >>)
    \o NameOf(item) \o (IF item.dir THEN << Slash >> ELSE << >>)

\* Lines 69-72.
format_name(item, is_last) ==
    (IF is_last THEN << BoxUpRight, BoxHorizontal, BoxHorizontal, Space >>
     ELSE << BoxVerticalRight, BoxHorizontal, BoxHorizontal, Space >>)
    \o NameOf(item) \o (IF item.dir THEN << Slash >> ELSE << >>)

\* An element of the returned list: the line, and the entry it was made for.
Entry(text, key) == [text |-> text, key |-> key]

\* Lines 83-84 with the path put at the head of every directory's lines.
RootLine_EveryLevel(key, prefix) == << Entry(TreePath(key), key) >>

\* Lines 83-84: the path itself, in the top-level call only.
RootLine(key, prefix) ==
    IF prefix = << >> THEN << Entry(TreePath(key), key) >> ELSE << >>

\* Lines 74-112 for the directory `key`, and lines 99-110 from item `index`
\* on.  A path that does not exist gives no lines; a directory that cannot
\* be listed gives the lines made before the listing.
RECURSIVE generate_tree(_, _)
RECURSIVE TreeItemLines(_, _, _)
generate_tree(key, prefix) ==
    IF key = << >> /\ fs.root = "missing" THEN << >>
    ELSE IF ~(IF key = << >> THEN fs.root = "ok" ELSE node_table[key].listable)
    THEN RootLine(key, prefix)
    ELSE LET listed == iterdir(key)
             items == SortItems(SelectSeq(listed, LAMBDA item : ~TreeExcludes(item, key)),
                                << >>)
         IN  RootLine(key, prefix) \o TreeItemLines(items, prefix, 1)

TreeItemLines(items, prefix, index) ==
    IF index > Len(items) THEN << >>
    ELSE LET item == items[index]
             is_last == index = Len(items)
             extension == IF is_last THEN << Space, Space, Space, Space >>
                          ELSE << BoxVertical, Space, Space, Space >>
         IN  << Entry(prefix \o format_name(item, is_last), item.key) >>
             \o (IF item.dir THEN generate_tree(item.key, prefix \o extension)
                 ELSE << >>)
             \o TreeItemLines(items, prefix, index + 1)

\* The pattern files a tree is rendered with.
TreeSpecs ==
    { NoSpec,
      PathSpec(<< <<"d","o","c","s","/","g","u","i","d","e",".","m","d">> >>),
      PathSpec(<< <<"/","g","u","i","d","e",".","m","d">> >>),
      PathSpec(<< <<"*",".","p","y">> >>),
      PathSpec(<< <<"*",".","m","d">>, <<"!","R","E","A","D","M","E",".","m","d">> >>) }

InitTree ==
    /\ fs \in Trees
    /\ directory \in Directories
    /\ spec \in TreeSpecs
    /\ git_only_signatures = FALSE
    /\ git = [error |-> "none", untracked |-> {}]
    /\ pc = "idle"
    /\ stack = << >>
    /\ listing \in Orders
    /\ all_files = << >>
    /\ signature_candidates = << >>
    /\ git_tracked = {}
    /\ result = NoResult
    /\ prev_result = NoResult
    /\ calls = << >>
    /\ q = IdleQuery
    /\ qres = NoCall

\* generate_tree(Path(directory), spec)
CallGenerateTree ==
    /\ qres.called = "none"
    /\ qres' = [called |-> "generate_tree", entries |-> generate_tree(<< >>, << >>)]
    /\ UNCHANGED << scanVars, q >>

NextTree == CallGenerateTree

SpecTree == InitTree /\ [][NextTree]_vars

-----------------------------------------------------------------------------
(* Properties of generate_tree, checked under SpecTree.                    *)

TreeDone == qres.called = "generate_tree"

\* The keys of the entries the returned lines were made for, but the root.
LineKeys == { qres.entries[i].key : i \in 2..Len(qres.entries) }

Parent(key) == SubSeq(key, 1, Len(key) - 1)

\* Every directory above the entry, the root included, can be listed.
ListableAbove(key) ==
    /\ fs.root = "ok"
    /\ \A j \in 1..(Len(key) - 1) : node_table[SubSeq(key, 1, j)].listable

\* The pattern matcher applied to the path of an entry relative to the root
\* of the top-level call.
RootRelativeExcluded(key) ==
    main_should_exclude(TreePath(key), TreeRoot, node_table[key].dir, spec)

\* C16: an entry that the renderer can get at is listed exactly when the
\* pattern matcher, applied to its path relative to the root of the
\* top-level call, excludes neither it nor one of its ancestors.
C16_RootRelativeExclusion ==
    TreeDone =>
        \A n \in Nodes(fs) :
            ListableAbove(n.key) =>
                (n.key \in LineKeys <=>
                    \A j \in 1..Len(n.key) : ~RootRelativeExcluded(SubSeq(n.key, 1, j)))

\* C17: whatever the user patterns are, no line of the tree is for an entry
\* whose path relative to the root matches a default exclusion.
C17_TreeHonorsDefaults ==
    TreeDone =>
        \A k \in LineKeys :
            ~DefaultLoop(RelPathStr(Join(k, Slash), node_table[k].dir))

\* C18: among the lines of the children of one directory, no file comes
\* before a directory, and within the directories and within the files no
\* lower-cased name comes before a smaller one.
C18_DirectoriesFirstThenByName ==
    TreeDone =>
        \A i, j \in 2..Len(qres.entries) :
            LET a == node_table[qres.entries[i].key]
                b == node_table[qres.entries[j].key]
            IN  (i < j /\ Parent(a.key) = Parent(b.key)) =>
                    /\ b.dir => a.dir
                    /\ a.dir = b.dir => ~StrLess(Lower(NameOf(b)), Lower(NameOf(a)))

\* A directory that was listed in descending order and holds a
\* subdirectory, MAIN.PY and app.py: app.py is put before MAIN.PY.
C18_Witness ==
    /\ TreeDone
    /\ listing = "desc"
    /\ \E i, j \in 2..Len(qres.entries) :
          /\ i + 1 < j
          /\ qres.entries[i].key = << n_src, n_node_modules >>
          /\ qres.entries[j - 1].key = << n_src, <<"a","p","p",".","p","y">> >>
          /\ qres.entries[j].key = << n_src, <<"M","A","I","N",".","P","Y">> >>

\* The position of the line made for an entry.
LineOf(key) == CHOOSE i \in 1..Len(qres.entries) : qres.entries[i].key = key

\* No later line is for an entry of the same directory.
IsLastLine(key) ==
    \A j \in (LineOf(key) + 1)..Len(qres.entries) :
        Parent(qres.entries[j].key) # Parent(key)

\* The indentation of a line: four characters for each ancestor below the
\* root, spaces when the ancestor's line was the last of its directory and a
\* vertical bar and three spaces otherwise.
Indentation(key) ==
    [c \in 1..(4 * (Len(key) - 1)) |->
        IF (c - 1) % 4 = 0 /\ ~IsLastLine(SubSeq(key, 1, ((c - 1) \div 4) + 1))
        THEN "U+2502" ELSE " "]

\* C19: every entry line is the indentation inherited from the ancestors,
\* the connector of a last or a non-last child, the name of the entry and a
\* slash when it is a directory.
C19_LineFormat ==
    TreeDone =>
        \A i \in 2..Len(qres.entries) :
            LET k == qres.entries[i].key
            IN  qres.entries[i].text =
                    Indentation(k)
                    \o (IF IsLastLine(k) THEN << "U+2514", "U+2500", "U+2500", " " >>
                        ELSE << "U+251C", "U+2500", "U+2500", " " >>)
                    \o k[Len(k)]
                    \o (IF node_table[k].dir THEN << "/" >> ELSE << >>)

\* A file two directories down whose parent is the last child of a
\* directory that is not the last child of the root.
C19_Witness ==
    /\ TreeDone
    /\ \E i \in 2..Len(qres.entries) :
          qres.entries[i].text =
              << "U+2502", " ", " ", " ", " ", " ", " ", " ",
                 "U+2514", "U+2500", "U+2500", " " >> \o <<"o","u","t","p","u","t",".","j","s">>

\* The entries the renderer does not exclude: neither the entry nor one of
\* its ancestors is excluded where its directory is listed.
NotExcluded(key) ==
    \A j \in 1..Len(key) :
        ~TreeExcludes(node_table[SubSeq(key, 1, j)], SubSeq(key, 1, j - 1))

IsPrefix(a, b) == Len(a) <= Len(b) /\ SubSeq(b, 1, Len(a)) = a

\* The lines are the root path, once and first, and one line for each entry
\* of `visible`, each after the line of its directory with nothing but
\* entries below that directory in between.
TreeIsPreOrderOf(visible) ==
    /\ Len(qres.entries) = 1 + Cardinality(visible)
    /\ qres.entries[1].text = AbsoluteOf(directory, << >>)
    /\ Cardinality({ i \in 1..Len(qres.entries) :
                       qres.entries[i].text = AbsoluteOf(directory, << >>) }) = 1
    /\ \A k \in visible :
          Cardinality({ i \in 2..Len(qres.entries) : qres.entries[i].key = k }) = 1
    /\ \A i \in 2..Len(qres.entries) :
          LET up == IF Len(qres.entries[i].key) = 1 THEN 1
                    ELSE LineOf(Parent(qres.entries[i].key))
          IN  /\ up < i
              /\ \A m \in (up + 1)..i :
                    IsPrefix(Parent(qres.entries[i].key), qres.entries[m].key)

\* C20 as stated: for an existing root the tree is the root path and, in
\* depth-first pre-order, one line for every entry that is not excluded and
\* has no excluded ancestor.
C20_TreeCompleteness ==
    (TreeDone /\ fs.root # "missing") =>
        TreeIsPreOrderOf({ n.key : n \in { m \in Nodes(fs) : NotExcluded(m.key) } })

\* C20 amended: one line for every entry that is not excluded, has no
\* excluded ancestor and lies below directories that can all be listed.
C20_TreeCompletenessListable ==
    (TreeDone /\ fs.root # "missing") =>
        TreeIsPreOrderOf({ n.key : n \in { m \in Nodes(fs) :
                                              NotExcluded(m.key) /\ ListableAbove(m.key) } })

\* A tree with a directory that cannot be listed: the directory has its
\* line, the file below it has none.
C20_Witness ==
    /\ TreeDone
    /\ fs.top = { n_locked, n_build }
    /\ spec = NoSpec
    /\ << n_locked >> \in LineKeys
    /\ << n_locked, <<"x",".","p","y">> >> \notin LineKeys
    /\ << n_build, n_dist, <<"o","u","t","p","u","t",".","j","s">> >> \in LineKeys
    /\ Len(qres.entries) = 11

-----------------------------------------------------------------------------
(* codecontextor/main.py parse_patterns_file, read_files_from_txt: the     *)
(* text files that list patterns and file paths.                           *)

Newline == "\n"

\* The characters str.strip() removes.
Whitespace == { " ", "\t", "\n", "\r" }

RECURSIVE lstrip(_)
lstrip(s) ==
    IF Len(s) > 0 /\ s[1] \in Whitespace THEN lstrip(Tail(s)) ELSE s

RECURSIVE rstrip(_)
rstrip(s) ==
    IF Len(s) > 0 /\ s[Len(s)] \in Whitespace THEN rstrip(SubSeq(s, 1, Len(s) - 1))
    ELSE s

\* str.strip() left out.
strip_Identity(s) == s

\* str.strip()
strip(s) == lstrip(rstrip(s))

\* Iterating over a text file: the lines of the text, each with the newline
\* that ends it.
RECURSIVE LinesFrom(_, _, _, _)
LinesFrom(text, i, cur, acc) ==
    IF i > Len(text) THEN (IF Len(cur) > 0 THEN Append(acc, cur) ELSE acc)
    ELSE IF text[i] = Newline THEN LinesFrom(text, i + 1, << >>, Append(acc, Append(cur, text[i])))
    ELSE LinesFrom(text, i + 1, Append(cur, text[i]), acc)

FileLines(text) == LinesFrom(text, 1, << >>, << >>)

\* Lines 49-51 with the comment test left out.
PatternLines_KeepComments(text) ==
    LET kept == SelectSeq(FileLines(text), LAMBDA line : Len(strip(line)) > 0)
    IN  [i \in 1..Len(kept) |-> strip(kept[i])]

\* Lines 49-51: the list comprehension over the lines of the open file.
PatternLines(text) ==
    LET kept == SelectSeq(FileLines(text),
                          LAMBDA line : Len(strip(line)) > 0
                                        /\ ~StartsWith(strip(line), << "#" >>))
    IN  [i \in 1..Len(kept) |-> strip(kept[i])]

\* Lines 44-52 for a file in `state` with the given text: ok, missing, or
\* present but not readable, in which case open() raises.
parse_patterns_file(state, text) ==
    IF state = "missing" THEN [raised |-> FALSE, value |-> << >>]
    ELSE IF state = "unreadable" THEN [raised |-> TRUE, value |-> << >>]
    ELSE [raised |-> FALSE, value |-> PatternLines(text)]

\* Lines 180-187: every exception of open() and of reading is caught.
read_files_from_txt(state, text) ==
    IF state # "ok" THEN [raised |-> FALSE, value |-> << >>]
    ELSE LET kept == SelectSeq(FileLines(text), LAMBDA line : Len(strip(line)) > 0)
         IN  [raised |-> FALSE, value |-> [i \in 1..Len(kept) |-> strip(kept[i])]]

\* Number of lines of a list file.
MaxLines == 3

\* The lines a list file is made of, without their newline.
LineTexts ==
    { <<"*",".","p","y","c">>, <<"#","C","o","m","m","e","n","t">>, << >>, <<" "," ">>, <<" "," ","#"," ","c">>, <<" ","b","u","i","l","d","/"," ">>,
      <<"-"," ","a",".","t","x","t">>, << " ", "\t", "-", " ", "b", ".", "t", "x", "t", " " >> }

RECURSIVE JoinLines(_)
JoinLines(lines) ==
    IF Len(lines) = 0 THEN << >>
    ELSE IF Len(lines) = 1 THEN lines[1]
    ELSE lines[1] \o << Newline >> \o JoinLines(Tail(lines))

\* A list file: missing, unreadable, or a text of up to MaxLines lines whose
\* last line ends with a newline or not.
ListFiles ==
    { [state |-> s, lines |-> << >>, text |-> << >>] : s \in { "missing", "unreadable" } }
    \cup { [state |-> "ok", lines |-> ls,
            text |-> JoinLines(ls) \o (IF nl THEN << Newline >> ELSE << >>)] :
             ls \in UNION { [1..n -> LineTexts] : n \in 0..MaxLines }, nl \in BOOLEAN }

InitLists ==
    /\ fs = [root |-> "missing", top |-> {}]
    /\ directory = << >>
    /\ spec = NoSpec
    /\ git_only_signatures = FALSE
    /\ git = [error |-> "none", untracked |-> {}]
    /\ pc = "idle"
    /\ stack = << >>
    /\ listing = "asc"
    /\ all_files = << >>
    /\ signature_candidates = << >>
    /\ git_tracked = {}
    /\ result = NoResult
    /\ prev_result = NoResult
    /\ calls = << >>
    /\ q \in ListFiles
    /\ qres = NoCall

\* parse_patterns_file(path of the file q)
CallParsePatternsFile ==
    /\ qres.called = "none"
    /\ LET o == parse_patterns_file(q.state, q.text)
       IN  qres' = [called |-> "parse_patterns_file", raised |-> o.raised,
                    value |-> o.value]
    /\ UNCHANGED << scanVars, q >>

\* read_files_from_txt(path of the file q)
CallReadFilesFromTxt ==
    /\ qres.called = "none"
    /\ LET o == read_files_from_txt(q.state, q.text)
       IN  qres' = [called |-> "read_files_from_txt", raised |-> o.raised,
                    value |-> o.value]
    /\ UNCHANGED << scanVars, q >>

NextLists == CallParsePatternsFile \/ CallReadFilesFromTxt

SpecLists == InitLists /\ [][NextLists]_vars

-----------------------------------------------------------------------------
(* Properties of the list-file parsers, checked under SpecLists.           *)

\* The positions of a line that hold something else than whitespace.
Inked(line) == { i \in 1..Len(line) : line[i] \notin { " ", "\t", "\n", "\r" } }

\* The line from its first to its last such position.
Trimmed(line) ==
    SubSeq(line, CHOOSE i \in Inked(line) : \A j \in Inked(line) : i <= j,
                 CHOOSE i \in Inked(line) : \A j \in Inked(line) : j <= i)

\* A line that is neither blank nor a comment.
IsListEntry(line) == Inked(line) # {} /\ Trimmed(line)[1] # "#"

\* The entries of the file q, in file order, without surrounding whitespace.
TrimmedEntries ==
    LET kept == SelectSeq(q.lines, IsListEntry)
    IN  [i \in 1..Len(kept) |-> Trimmed(kept[i])]

WithoutMarker(entry) ==
    IF Len(entry) >= 2 /\ entry[1] = "-" /\ entry[2] = " "
    THEN Trimmed(SubSeq(entry, 3, Len(entry)))
    ELSE entry

\* C22: read_files_from_txt returns, in file order, the entries of the list
\* file without blank lines, comment lines, surrounding whitespace and
\* leading "- " markers, and the empty list for a file it cannot read.
C22_ReadFilesFromTxt ==
    qres.called = "read_files_from_txt" =>
        /\ ~qres.raised
        /\ qres.value =
              IF q.state # "ok" THEN << >>
              ELSE [i \in 1..Len(TrimmedEntries) |-> WithoutMarker(TrimmedEntries[i])]

-----------------------------------------------------------------------------
(* Paths, git query and lock files of scan_project_files, checked under    *)
(* Spec.                                                                   *)

\* C23: every path of all_files and of signature_candidates that a scan
\* returns is absolute, whether the directory argument is absolute or
\* relative.
C23_ResultPathsAbsolute ==
    pc = "done" =>
        /\ \A i \in 1..Len(result.all_files) :
              result.all_files[i][1] = "/"
        /\ \A i \in 1..Len(result.signature_candidates) :
              result.signature_candidates[i][1] = "/"

\* The positions of the git queries among the calls made so far.
GitQueries == { i \in 1..Len(calls) : calls[i].op = "git" }

\* The scanned directory holds a .git directory.
HoldsGitDir ==
    \E n \in DirNodes(fs) : n.key = << n_git >> /\ fs.root = "ok"

\* C25: once a scan with git_only_signatures of a directory that holds .git
\* is past its start, git has been queried exactly once, and the query is the
\* first call made: it precedes every directory listing and none follows.
C25_GitQueriedOnceBeforeWalk ==
    (pc # "start" /\ git_only_signatures /\ HoldsGitDir) =>
        GitQueries = { 1 }

\* A returned scan of a repository with tracking required that listed
\* several directories after the one git query.
C25_Witness ==
    /\ pc = "done"
    /\ git_only_signatures
    /\ HoldsGitDir
    /\ GitQueries = { 1 }
    /\ Cardinality({ i \in 1..Len(calls) : calls[i].op = "listdir" }) >= 3
    /\ Len(result.all_files) >= 2

\* The last component of a path.
Basename(path) == LET names == Split(path, Slash) IN names[Len(names)]

\* C26: with no user patterns, no file named yarn.lock or package-lock.json
\* is in the all_files of a returned scan.
C26_LockFilesExcluded ==
    (pc = "done" /\ spec.none) =>
        \A i \in 1..Len(result.all_files) :
            Basename(result.all_files[i]) \notin
                { <<"y","a","r","n",".","l","o","c","k">>, <<"p","a","c","k","a","g","e","-","l","o","c","k",".","j","s","o","n">> }

-----------------------------------------------------------------------------
(* contextor/signatures/javascript.py timeout_handler, safe_regex_finditer *)
(*                                                                         *)
(* The call is followed statement by statement, because SIGALRM is         *)
(* delivered asynchronously: Python runs the handler between two bytecodes *)
(* of the main thread, or inside the regex engine, which polls for         *)
(* signals, wherever the program is when the alarm expires.  pc is the     *)
(* position in the function, q the call (the handler the process had, the  *)
(* behaviour of pattern.finditer on the content), qres the signal state of *)
(* the process and the completion of the call.                             *)

\* What signal.getsignal(SIGALRM) may be before a call.
CallerHandlers == { "SIG_DFL", "SIG_IGN", "caller_handler" }

\* The lists pattern.finditer(content) may produce.
MatchLists == { << >>, << "m1" >>, << "m1", "m2" >> }

\* pattern.finditer(content): the scan ends with its matches, backtracks
\* without end, or fails with an exception of its own.
Matchers ==
    { [matcher |-> "completes", found |-> f] : f \in MatchLists }
    \cup { [matcher |-> m, found |-> << >>] : m \in { "backtracks", "raises" } }

\* A call of safe_regex_finditer in a process whose SIGALRM handler is h.
RegexCalls(h) ==
    { [sigalrm |-> h, matcher |-> m.matcher, found |-> m.found] : m \in Matchers }

\* The state on entry: nothing saved, no alarm armed, nothing completed.
Entered(h) ==
    [called |-> "safe_regex_finditer", handler |-> h, old_handler |-> "unset",
     alarm |-> FALSE, kind |-> "none", value |-> << >>, exc |-> "none"]

\* The variables of the scan, which a regex call leaves alone.
scanData ==
    << fs, directory, spec, git_only_signatures, git, stack, listing, all_files,
       signature_candidates, git_tracked, result, prev_result, calls >>

InitRegex ==
    /\ fs = [root |-> "missing", top |-> {}]
    /\ directory = << >>
    /\ spec = NoSpec
    /\ git_only_signatures = FALSE
    /\ git = [error |-> "none", untracked |-> {}]
    /\ stack = << >>
    /\ listing = "asc"
    /\ all_files = << >>
    /\ signature_candidates = << >>
    /\ git_tracked = {}
    /\ result = NoResult
    /\ prev_result = NoResult
    /\ calls = << >>
    /\ pc = "call"
    /\ \E h \in CallerHandlers :
          /\ q \in RegexCalls(h)
          /\ qres = Entered(h)

\* Line 27: old_handler = signal.signal(signal.SIGALRM, timeout_handler)
InstallHandler ==
    /\ pc = "call"
    /\ qres' = [qres EXCEPT !.old_handler = qres.handler,
                            !.handler = "timeout_handler"]
    /\ pc' = "installed"
    /\ UNCHANGED << scanData, q >>

\* Line 28: signal.alarm(timeout_seconds)
ArmAlarm ==
    /\ pc = "installed"
    /\ qres' = [qres EXCEPT !.alarm = TRUE]
    /\ pc' = "armed"
    /\ UNCHANGED << scanData, q >>

\* Lines 30-31: the try block is entered and the matching starts.
EnterTry ==
    /\ pc = "armed"
    /\ pc' = "matching"
    /\ UNCHANGED << scanData, q, qres >>

\* Lines 31-32: list(pattern.finditer(content)) is complete; return matches
\* leaves the try block for the finally block with the list to return.
MatchCompletes ==
    /\ pc = "matching"
    /\ q.matcher = "completes"
    /\ qres' = [qres EXCEPT !.kind = "return", !.value = q.found]
    /\ pc' = "finally"
    /\ UNCHANGED << scanData, q >>

\* Line 31: the matcher raises an exception that except TimeoutError does
\* not catch; the finally block runs with the exception to re-raise.
MatchRaises ==
    /\ pc = "matching"
    /\ q.matcher = "raises"
    /\ qres' = [qres EXCEPT !.kind = "raise", !.exc = "RecursionError"]
    /\ pc' = "finally"
    /\ UNCHANGED << scanData, q >>

\* Lines 21-22: what the installed handler does when SIGALRM is delivered.
timeout_handler(handler) ==
    IF handler = "timeout_handler" THEN "TimeoutError" ELSE "none"

\* Where an exception raised at position p goes: inside the try block
\* (line 31) except TimeoutError catches a TimeoutError; before the try
\* block and inside the finally block nothing does, and the rest of the
\* finally block is skipped.
RaisedAt(p, e) ==
    IF p = "matching" /\ e = "TimeoutError" THEN "except" ELSE "raised"

\* The alarm expires while the call is between two statements or inside the
\* matcher: the alarm is spent and the handler runs at that position.
AlarmFires ==
    /\ qres.alarm
    /\ pc \in { "armed", "matching", "finally" }
    /\ LET e == timeout_handler(qres.handler)
       IN  IF e = "none"
           THEN /\ qres' = [qres EXCEPT !.alarm = FALSE]
                /\ pc' = pc
           ELSE /\ pc' = RaisedAt(pc, e)
                /\ qres' = IF pc' = "raised"
                           THEN [qres EXCEPT !.alarm = FALSE, !.kind = "raise",
                                             !.value = << >>, !.exc = e]
                           ELSE [qres EXCEPT !.alarm = FALSE]
    /\ UNCHANGED << scanData, q >>

\* Lines 33-35: except TimeoutError prints the warning and returns [].
HandleTimeout ==
    /\ pc = "except"
    /\ qres' = [qres EXCEPT !.kind = "return", !.value = << >>]
    /\ pc' = "finally"
    /\ UNCHANGED << scanData, q >>

\* Line 37: signal.alarm(0)
CancelAlarm ==
    /\ pc = "finally"
    /\ qres' = [qres EXCEPT !.alarm = FALSE]
    /\ pc' = "cancelled"
    /\ UNCHANGED << scanData, q >>

\* Line 38: signal.signal(signal.SIGALRM, old_handler); the call then ends
\* as the try statement decided.
RestoreHandler ==
    /\ pc = "cancelled"
    /\ qres' = [qres EXCEPT !.handler = qres.old_handler]
    /\ pc' = IF qres.kind = "return" THEN "returned" ELSE "raised"
    /\ UNCHANGED << scanData, q >>

\* The next extraction call of the run: the extract_* functions call
\* safe_regex_finditer in sequence, and get_js_signatures (lines 319-336)
\* catches an exception of an extraction and goes on with the next file.
NextCall ==
    /\ pc \in { "returned", "raised" }
    /\ q' \in RegexCalls(qres.handler)
    /\ qres' = Entered(qres.handler)
    /\ pc' = "call"
    /\ UNCHANGED scanData

\* The statements of one call.
RegexStep ==
    \/ InstallHandler
    \/ ArmAlarm
    \/ EnterTry
    \/ MatchCompletes
    \/ MatchRaises
    \/ HandleTimeout
    \/ CancelAlarm
    \/ RestoreHandler

NextRegex == RegexStep \/ AlarmFires \/ NextCall

SpecRegex == InitRegex /\ [][NextRegex]_vars

\* The interpreter keeps running the call, and an armed alarm expires.
SpecRegexFair ==
    SpecRegex /\ WF_vars(RegexStep) /\ WF_vars(AlarmFires)

-----------------------------------------------------------------------------
(* Properties of safe_regex_finditer, checked under SpecRegex and, for     *)
(* termination, under SpecRegexFair.                                       *)

\* The call has ended, by returning or by raising.
RegexEnded == pc \in { "returned", "raised" }

\* A call that ended by returning gave the matches, or [] after a timeout.
ReturnsMatchesOrEmpty ==
    pc = "returned" => qres.value \in { q.found, << >> }

\* No call ends by raising TimeoutError to its caller.
TimeoutContained ==
    pc = "raised" => qres.exc # "TimeoutError"

\* C24: every call through safe_regex_finditer ends, and ends by returning
\* the match list or, after a timeout, the empty list; a timeout is never
\* raised to the caller and the call never hangs.
C24_ExtractionReturns ==
    /\ [](ReturnsMatchesOrEmpty /\ TimeoutContained)
    /\ (pc = "call") ~> RegexEnded

\* C27: when a call of safe_regex_finditer has ended, by returning or by
\* raising, the SIGALRM handler is the one the process had before the call
\* and no alarm armed by the call is pending.
C27_SignalStateRestored ==
    RegexEnded => (qres.handler = q.sigalrm /\ ~qres.alarm)

====
